---- MODULE Spec2Model ----
(***************************************************************************)
(* The request-transport layer of gomts: Config's getters (client.go), the *)
(* authenticating transport mtsTransport.RoundTrip, the error mapper       *)
(* mapResponseToError and the generic dispatcher httpDo / newHTTPRequest / *)
(* mapResponseBody (the transport part of department.go).                  *)
(*                                                                         *)
(* Calls run concurrently on one client and share the *Config (held by     *)
(* reference), the process environment, the logger and the wrapped         *)
(* transport.  RoundTrip is cut into one step per read of shared state.    *)
(***************************************************************************)
EXTENDS Integers, Sequences, FiniteSets, TLC

\* ------------------------------------------------------------------ bounds

\* How many times the caller mutates the Config or the environment after
\* NewClient, in one behaviour.
MaxConfigChanges == 1

\* ------------------------------------------------------------- input sets

Calls == {"c1", "c2"}

\* Auth tokens are colon-free, as HTTP Basic user-ids must be.
AuthTokens == {"", "tok"}
EnvTokens == {"", "envtok"}
UserAgents == {"", "my-custom-user-agent"}
\* Config.Transport: nil, or a RoundTripper the caller installed.
Transports == {"nil", "testTransport"}

Configs == [AuthToken : AuthTokens, UserAgent : UserAgents,
            Debug : BOOLEAN, Transport : Transports]

\* The goroutines that call the sweeper.
Procs == {"g1", "g2"}

\* How many sweeper operations are started in all.
MaxSweeperOps == 3

\* How many IDs one list of the sweeper holds at most.
MaxSlated == 2

EmployeeIDs == {"e1", "e2"}

DepartmentIDs == {"d1"}

\* The API methods of the resource clients, and a caller that uses the
\* transport of Config.GetTransport directly with a request of its own.
Ops == {"Get", "Delete", "Create", "Update", "Direct"}

HeaderNames == {"User-Agent", "Accept", "Content-Type"}

\* --------------------------------------------------------------- client.go

defaultUserAgent == "go.charbar.io/gomts"

\* GetAuthToken with the precedence reversed: the environment wins.
GetAuthToken_EnvFirst(c, e) == IF e = "" THEN c.AuthToken ELSE e

GetAuthToken(c, e) == IF c.AuthToken = "" THEN e ELSE c.AuthToken

GetUserAgent(c) == IF c.AuthToken = "" THEN defaultUserAgent ELSE c.UserAgent

\* The level of the default text handler GetLogger builds; newClient calls
\* it once, so the level is the one of construction time.
GetLoggerLevel(c) == IF c.Debug THEN "debug" ELSE "info"

\* ----------------------------------------------------- net/http.Header

\* http.Header maps a name to the list of its values.
NoHeader == [h \in HeaderNames |-> <<>>]

HeaderAdd(hdr, name, value) == [hdr EXCEPT ![name] = Append(@, value)]

\* Header.Get: the first value of the name, "" when there is none.
HeaderGet(hdr, name) == IF hdr[name] = <<>> THEN "" ELSE Head(hdr[name])

\* Whether the name is a key of the header map.
HeaderHas(hdr, name) == hdr[name] # <<>>

\* ------------------------------------------------- values of the transport

\* A response body as the JSON decoder sees it: empty, not valid JSON, or a
\* JSON object whose "error" member holds error_code and error_text.  A
\* member of the wrong JSON type (a string for error_code, a number for
\* error_text) is "not typed"; an absent member decodes like 0 or "".
EmptyBody == [kind |-> "empty", codeTyped |-> TRUE, code |-> 0,
              textTyped |-> TRUE, text |-> ""]

InvalidBody == [kind |-> "invalid", codeTyped |-> TRUE, code |-> 0,
                textTyped |-> TRUE, text |-> ""]

JsonBody(codeTyped, code, textTyped, text) ==
    [kind |-> "json", codeTyped |-> codeTyped, code |-> code,
     textTyped |-> textTyped, text |-> text]

\* The well-formed envelope {"error":{"error_code":c,"error_text":t}}.
Envelope(c, t) == JsonBody(TRUE, c, TRUE, t)

WellFormedEnvelope(b) == b.kind = "json" /\ b.codeTyped /\ b.textTyped

Response(status, body) == [nil |-> FALSE, StatusCode |-> status, Body |-> body]

NilResponse == [nil |-> TRUE, StatusCode |-> 0, Body |-> EmptyBody]

\* Errors: nil, or a value with its type; ErrorCode and ErrorText are the
\* fields of *Error and are 0 and "" for the other types.
Err(type, code, text) == [type |-> type, ErrorCode |-> code, ErrorText |-> text]

NilErr == Err("nil", 0, "")

ErrMissingToken == Err("ErrMissingToken", 0, "")

\* fmt.Errorf("request failed: %w", err) around the wrapped transport's error.
ErrRequestFailed == Err("request failed", 0, "")

\* --------------------------------------------- mapResponseToError

\* net/http.StatusText, on the codes the model uses: "" for an unknown code.
StatusText(code) ==
    CASE code = 100 -> "Continue"
      [] code = 200 -> "OK"
      [] code = 300 -> "Multiple Choices"
      [] code = 404 -> "Not Found"
      [] code = 500 -> "Internal Server Error"
      [] OTHER -> ""

\* json.NewDecoder(resp.Body).Decode(&errResp): what it leaves in errResp,
\* and whether it returned an error.  A syntax error or an empty body leaves
\* errResp untouched; a member of the wrong type is skipped (its error is
\* saved and returned at the end) and the other members are still stored.
DecodeErrorResponse(b) ==
    IF b.kind = "json"
    THEN [ErrorCode |-> IF b.codeTyped THEN b.code ELSE 0,
          ErrorText |-> IF b.textTyped THEN b.text ELSE "",
          failed |-> ~(b.codeTyped /\ b.textTyped)]
    ELSE [ErrorCode |-> 0, ErrorText |-> "", failed |-> TRUE]

\* mapResponseToError taking the reason phrase of the HTTP status instead of
\* the one of the (possibly substituted) code.
mapResponseToError_StatusPhrase(resp) ==
    LET errResp == DecodeErrorResponse(resp.Body)
        code == IF errResp.ErrorCode = 0 THEN resp.StatusCode
                ELSE errResp.ErrorCode
        text == IF errResp.ErrorText = "" THEN StatusText(resp.StatusCode)
                ELSE errResp.ErrorText
    IN  Err("Error", code, text)

\* mapResponseToError substituting the reason phrase for every text.
mapResponseToError_AlwaysPhrase(resp) ==
    LET errResp == DecodeErrorResponse(resp.Body)
        code == IF errResp.ErrorCode = 0 THEN resp.StatusCode
                ELSE errResp.ErrorCode
    IN  Err("Error", code, StatusText(code))

mapResponseToError(resp) ==
    LET errResp == DecodeErrorResponse(resp.Body)
        code == IF errResp.ErrorCode = 0 THEN resp.StatusCode
                ELSE errResp.ErrorCode
        text == IF errResp.ErrorText = "" THEN StatusText(code)
                ELSE errResp.ErrorText
    IN  Err("Error", code, text)

\* The status test with the upper limit off by one.
IsErrorStatus_OffByOne(status) == status < 200 \/ status >= 299

\* The status test of RoundTrip: TRUE when the response goes to the mapper.
IsErrorStatus(status) == status < 200 \/ status > 299

\* ------------------------------------------------------ newHTTPRequest

Method(op) ==
    CASE op = "Get" -> "GET"
      [] op = "Delete" -> "DELETE"
      [] op = "Create" -> "POST"
      [] op = "Update" -> "PUT"
      [] OTHER -> "GET"

\* The body httpGet, httpDelete, httpPost and httpPut hand to httpDo: none,
\* a formRequest (the create requests), or another value (the update request).
BodyOf(op) ==
    CASE op = "Create" -> "form"
      [] op = "Update" -> "json"
      [] OTHER -> "nil"

\* The request, or the error when encoding the body or http.NewRequest fails.
newHTTPRequest(method, body, ok) ==
    LET contentType ==
            IF body # "nil"
            THEN IF body = "form" THEN "application/x-www-form-urlencoded"
                 ELSE "application/json"
            ELSE ""
    IN  IF ~ok
        THEN [err |-> Err("build", 0, ""), req |-> [method |-> method,
              header |-> NoHeader, auth |-> <<>>, payload |-> "nil"]]
        ELSE [err |-> NilErr,
              req |-> [method |-> method,
                       header |-> HeaderAdd(NoHeader, "Content-Type", contentType),
                       auth |-> <<>>,
                       payload |-> body]]

\* Request.SetBasicAuth: sets (replaces) the Authorization header.
SetBasicAuth(r, username, password) ==
    [r EXCEPT !.auth = <<[username |-> username, password |-> password]>>]

\* ------------------------------------------------------------------ state

VARIABLES
    conf,        \* the *Config the client and its transport hold by reference
    env,         \* the value of $MTS_AUTH_TOKEN
    logLevel,    \* the level of the logger newClient built
    nChanges,    \* how many times conf or env were changed after NewClient
    pc,          \* per call: where it stands
    op,          \* per call: the API method it runs ("none" before it starts)
    req,         \* per call: its *http.Request
    correlationID, \* per call: RoundTrip's local correlationID (0: not set)
    resp,        \* per call: the response the wrapped transport returned
    body,        \* per call: its response body, "none", "open" or "closed"
    rt,          \* per call: what RoundTrip returned, [resp, err]
    out,         \* per call: what httpDo returned, [set, ok, err]
    nMapped,     \* per call: how often mapResponseToError was invoked
    wire,        \* the requests the wrapped transports received, in order
    log,         \* the records the logger emitted, in order
    nUUID        \* how many UUIDs uuid.New has handed out

VARIABLES
    employeeIDs,   \* Sweeper.employeeIDs
    departmentIDs, \* Sweeper.departmentIDs
    mtx,           \* Sweeper.mtx: "free" or the goroutine that holds it
    spc,           \* per goroutine: where it stands in its sweeper operation
    g,             \* per goroutine: the locals of its sweeper operation
    sweepOut,      \* what the last Sweep returned, and what it attempted
    added,         \* the IDs of the Add calls that have returned
    swept,         \* the IDs a returned Sweep attempted, not slated since
    nOps           \* how many sweeper operations were started

vars == <<conf, env, logLevel, nChanges, pc, op, req, correlationID, resp,
          body, rt, out, nMapped, wire, log, nUUID,
          employeeIDs, departmentIDs, mtx, spc, g, sweepOut, added, swept, nOps>>

clientVars == <<conf, env, logLevel, nChanges, pc, op, req, correlationID, resp,
                body, rt, out, nMapped, wire, log, nUUID>>

sweeperVars == <<employeeIDs, departmentIDs, mtx, spc, g, sweepOut, added, swept, nOps>>

callVars == <<pc, op, req, correlationID, resp, body, rt, out, nMapped>>

NoRequest == [method |-> "", header |-> NoHeader, auth |-> <<>>, payload |-> "nil"]

NoReturn == [resp |-> NilResponse, err |-> NilErr]

NoOut == [set |-> FALSE, ok |-> FALSE, err |-> NilErr]

\* A caller that uses the transport directly hands it a request of its own,
\* which may already carry an Accept header.
CallerAccepts == {"", "text/html"}

DirectRequest(accept) ==
    [method |-> "GET",
     header |-> IF accept = "" THEN NoHeader ELSE HeaderAdd(NoHeader, "Accept", accept),
     auth |-> <<>>,
     payload |-> "nil"]

\* What the wrapped transport may answer.
StubResponses == {Response(200, Envelope(0, "")), Response(404, EmptyBody)}

\* The wider answers of the one-call specification.
AllStatuses == {199, 200, 299, 300, 404, 500}

EnvelopeCodes == {0, 42, 404}

EnvelopeTexts == {"", "boom"}

AllBodies ==
    {EmptyBody, InvalidBody}
        \cup {Envelope(c, t) : c \in EnvelopeCodes, t \in EnvelopeTexts}
        \cup {JsonBody(FALSE, 0, TRUE, t) : t \in EnvelopeTexts}
        \cup {JsonBody(TRUE, c, FALSE, "") : c \in EnvelopeCodes}
        \cup {JsonBody(FALSE, 0, FALSE, "")}

AllResponses == {Response(s, b) : s \in AllStatuses, b \in AllBodies}

\* A log record.  correlationID is 0 when the record carries no such
\* attribute; call names the call that logged it (not part of the record);
\* header and auth are the dumped request, status the dumped response.
LogRecord(level, msg, cid, c, dumped, header, auth, status) ==
    [level |-> level, msg |-> msg, correlationID |-> cid, call |-> c,
     dumped |-> dumped, header |-> header, auth |-> auth, status |-> status]

\* What the logger keeps of the records handed to it: a debug record only
\* when its level is debug.
\* The transport of a client logs to the logger newClient built; the one a
\* caller takes from Config.GetTransport logs to slog.Default(), whose level
\* is info.
Emit(c, recs) ==
    LET level == IF op[c] = "Direct" THEN "info" ELSE logLevel
    IN  SelectSeq(recs, LAMBDA r : r.level # "debug" \/ level = "debug")

\* The locals of a goroutine that runs no sweeper operation; err is what its
\* last CollectWithPrefix returned.
NoLocals ==
    [id |-> "", prefix |-> <<>>, snap |-> <<>>, employeeIDs |-> <<>>,
     departmentIDs |-> <<>>, i |-> 0, errList |-> <<>>, tried |-> <<>>,
     err |-> "nil"]

NoSweep ==
    [set |-> FALSE, nil |-> TRUE, errList |-> <<>>, text |-> <<>>,
     employeeIDs |-> <<>>, departmentIDs |-> <<>>, tried |-> <<>>]

Init ==
    /\ employeeIDs = <<>>
    /\ departmentIDs = <<>>
    /\ mtx = "free"
    /\ spc = [p \in Procs |-> "idle"]
    /\ g = [p \in Procs |-> NoLocals]
    /\ sweepOut = NoSweep
    /\ added = {}
    /\ swept = {}
    /\ nOps = 0
    /\ conf \in Configs
    /\ env \in EnvTokens
    /\ logLevel = GetLoggerLevel(conf)
    /\ nChanges = 0
    /\ pc = [c \in Calls |-> "idle"]
    /\ op = [c \in Calls |-> "none"]
    /\ req = [c \in Calls |-> NoRequest]
    /\ correlationID = [c \in Calls |-> 0]
    /\ resp = [c \in Calls |-> NilResponse]
    /\ body = [c \in Calls |-> "none"]
    /\ rt = [c \in Calls |-> NoReturn]
    /\ out = [c \in Calls |-> NoOut]
    /\ nMapped = [c \in Calls |-> 0]
    /\ wire = <<>>
    /\ log = <<>>
    /\ nUUID = 0

\* ------------------------------------------------------------- mtsTransport

\* getWrappedTransport without the look at Config.Transport.
getWrappedTransport_DefaultOnly(c) == "http.DefaultTransport"

getWrappedTransport(c) ==
    IF c.Transport # "nil" THEN c.Transport ELSE "http.DefaultTransport"

\* logRequest: the records it hands to the logger.  The error record goes
\* through logr (which carries the correlationID); the debug record goes
\* through t.logr, which does not.  A failed dump is logged and the (empty)
\* dump is logged all the same.
logRequest(c, r, cid, dumpOK) ==
    (IF dumpOK THEN <<>>
     ELSE <<LogRecord("error", "failed to dump request", cid, c, FALSE,
                      NoHeader, <<>>, 0)>>)
    \o <<LogRecord("debug", "outbound request", 0, c, dumpOK,
                   IF dumpOK THEN r.header ELSE NoHeader,
                   IF dumpOK THEN r.auth ELSE <<>>, 0)>>

logResponse(c, rsp, cid, dumpOK) ==
    (IF dumpOK THEN <<>>
     ELSE <<LogRecord("error", "failed to dump response", cid, c, FALSE,
                      NoHeader, <<>>, 0)>>)
    \o <<LogRecord("debug", "received response", 0, c, dumpOK,
                   NoHeader, <<>>, IF dumpOK THEN rsp.StatusCode ELSE 0)>>

\* RoundTrip returns r to its caller: to the caller of the transport, or to
\* http.Client.Do inside httpDo, which returns at once on an error and goes
\* on to mapResponseBody otherwise.
Returned(c, r) ==
    /\ rt' = [rt EXCEPT ![c] = r]
    /\ IF op[c] = "Direct"
       THEN /\ pc' = [pc EXCEPT ![c] = "done"]
            /\ out' = out
       ELSE IF r.err # NilErr
            THEN /\ pc' = [pc EXCEPT ![c] = "done"]
                 /\ out' = [out EXCEPT ![c] = [set |-> TRUE, ok |-> FALSE, err |-> r.err]]
            ELSE /\ pc' = [pc EXCEPT ![c] = "decode"]
                 /\ out' = out

\* httpDo up to c.httpClient.Do: build the request.
HttpDo(c, o, ok) ==
    /\ pc[c] = "idle"
    /\ LET r == newHTTPRequest(Method(o), BodyOf(o), ok)
       IN  /\ op' = [op EXCEPT ![c] = o]
           /\ IF r.err # NilErr
              THEN /\ pc' = [pc EXCEPT ![c] = "done"]
                   /\ out' = [out EXCEPT ![c] = [set |-> TRUE, ok |-> FALSE, err |-> r.err]]
                   /\ req' = req
              ELSE /\ pc' = [pc EXCEPT ![c] = "check"]
                   /\ req' = [req EXCEPT ![c] = r.req]
                   /\ out' = out
    /\ UNCHANGED <<conf, env, logLevel, nChanges, correlationID, resp, body,
                   rt, nMapped, wire, log, nUUID>>
    /\ UNCHANGED sweeperVars

\* A caller hands a request of its own to the transport.
DirectRoundTrip(c, accept) ==
    /\ pc[c] = "idle"
    /\ op' = [op EXCEPT ![c] = "Direct"]
    /\ req' = [req EXCEPT ![c] = DirectRequest(accept)]
    /\ pc' = [pc EXCEPT ![c] = "check"]
    /\ UNCHANGED <<conf, env, logLevel, nChanges, correlationID, resp, body,
                   rt, out, nMapped, wire, log, nUUID>>
    /\ UNCHANGED sweeperVars

\* RoundTrip without the token check: it goes on with an empty token.
RT_CheckToken_NoCheck(c) ==
    /\ pc[c] = "check"
    /\ pc' = [pc EXCEPT ![c] = "headers"]
    /\ UNCHANGED <<conf, env, logLevel, nChanges, op, req, correlationID,
                   resp, body, rt, out, nMapped, wire, log, nUUID>>
    /\ UNCHANGED sweeperVars

\* RoundTrip, the token check.
RT_CheckToken(c) ==
    /\ pc[c] = "check"
    /\ IF GetAuthToken(conf, env) = ""
       THEN Returned(c, [resp |-> NilResponse, err |-> ErrMissingToken])
       ELSE /\ pc' = [pc EXCEPT ![c] = "headers"]
            /\ UNCHANGED <<rt, out>>
    /\ UNCHANGED <<conf, env, logLevel, nChanges, op, req, correlationID,
                   resp, body, nMapped, wire, log, nUUID>>
    /\ UNCHANGED sweeperVars

\* RoundTrip, the correlation ID and the User-Agent and Accept headers.
RT_Headers(c) ==
    /\ pc[c] = "headers"
    /\ nUUID' = nUUID + 1
    /\ correlationID' = [correlationID EXCEPT ![c] = nUUID + 1]
    /\ req' = [req EXCEPT ![c].header =
                 HeaderAdd(HeaderAdd(@, "User-Agent", GetUserAgent(conf)),
                           "Accept", "application/json")]
    /\ pc' = [pc EXCEPT ![c] = "logreq"]
    /\ UNCHANGED <<conf, env, logLevel, nChanges, op, resp, body, rt, out,
                   nMapped, wire, log>>
    /\ UNCHANGED sweeperVars

\* RoundTrip with a dump of the request whose failure ends the call.
RT_LogRequest_AbortOnFailure(c, dumpOK) ==
    /\ pc[c] = "logreq"
    /\ log' = IF conf.Debug
              THEN log \o Emit(c, logRequest(c, req[c], correlationID[c], dumpOK))
              ELSE log
    /\ IF conf.Debug /\ ~dumpOK
       THEN Returned(c, [resp |-> NilResponse, err |-> Err("dump", 0, "")])
       ELSE /\ pc' = [pc EXCEPT ![c] = "auth"]
            /\ UNCHANGED <<rt, out>>
    /\ UNCHANGED <<conf, env, logLevel, nChanges, op, req, correlationID,
                   resp, body, nMapped, wire, nUUID>>
    /\ UNCHANGED sweeperVars

\* RoundTrip, the dump of the request.
RT_LogRequest(c, dumpOK) ==
    /\ pc[c] = "logreq"
    /\ log' = IF conf.Debug
              THEN log \o Emit(c, logRequest(c, req[c], correlationID[c], dumpOK))
              ELSE log
    /\ pc' = [pc EXCEPT ![c] = "auth"]
    /\ UNCHANGED <<conf, env, logLevel, nChanges, op, req, correlationID,
                   resp, body, rt, out, nMapped, wire, nUUID>>
    /\ UNCHANGED sweeperVars

\* RoundTrip, the Basic credentials.
RT_SetBasicAuth(c) ==
    /\ pc[c] = "auth"
    /\ req' = [req EXCEPT ![c] = SetBasicAuth(@, GetAuthToken(conf, env), "")]
    /\ pc' = [pc EXCEPT ![c] = "delegate"]
    /\ UNCHANGED <<conf, env, logLevel, nChanges, op, correlationID, resp,
                   body, rt, out, nMapped, wire, log, nUUID>>
    /\ UNCHANGED sweeperVars

\* RoundTrip with a retry: after a failure of the wrapped transport it
\* delegates once more.
RT_Delegate_Retry(c, answer) ==
    /\ pc[c] = "delegate"
    /\ wire' = Append(wire, [call |-> c, transport |-> getWrappedTransport(conf),
                             header |-> req[c].header, auth |-> req[c].auth])
    /\ IF answer.nil
       THEN UNCHANGED <<resp, body, pc, rt, out>>
       ELSE /\ resp' = [resp EXCEPT ![c] = answer]
            /\ body' = [body EXCEPT ![c] = "open"]
            /\ pc' = [pc EXCEPT ![c] = "response"]
            /\ UNCHANGED <<rt, out>>
    /\ UNCHANGED <<conf, env, logLevel, nChanges, op, req, correlationID,
                   nMapped, log, nUUID>>
    /\ UNCHANGED sweeperVars

\* RoundTrip, the wrapped transport's RoundTrip: it fails (answer is nil)
\* or answers with a response.
RT_Delegate(c, answer) ==
    /\ pc[c] = "delegate"
    /\ wire' = Append(wire, [call |-> c, transport |-> getWrappedTransport(conf),
                             header |-> req[c].header, auth |-> req[c].auth])
    /\ IF answer.nil
       THEN /\ Returned(c, [resp |-> NilResponse, err |-> ErrRequestFailed])
            /\ UNCHANGED <<resp, body>>
       ELSE /\ resp' = [resp EXCEPT ![c] = answer]
            /\ body' = [body EXCEPT ![c] = "open"]
            /\ pc' = [pc EXCEPT ![c] = "response"]
            /\ UNCHANGED <<rt, out>>
    /\ UNCHANGED <<conf, env, logLevel, nChanges, op, req, correlationID,
                   nMapped, log, nUUID>>
    /\ UNCHANGED sweeperVars

\* RoundTrip on a transport that keeps the response in a field of its own,
\* shared by the calls: the status test and the return use the response of
\* whichever call d stored it last.
RT_Response_SharedResponse(c, dumpOK) ==
    /\ pc[c] = "response"
    /\ log' = IF conf.Debug
              THEN log \o Emit(c, logResponse(c, resp[c], correlationID[c], dumpOK))
              ELSE log
    /\ \E d \in Calls :
          /\ ~resp[d].nil
          /\ IF IsErrorStatus(resp[d].StatusCode)
             THEN /\ nMapped' = [nMapped EXCEPT ![c] = @ + 1]
                  /\ body' = [body EXCEPT ![c] = "closed"]
                  /\ Returned(c, [resp |-> NilResponse, err |-> mapResponseToError(resp[d])])
             ELSE /\ Returned(c, [resp |-> resp[d], err |-> NilErr])
                  /\ UNCHANGED <<nMapped, body>>
    /\ UNCHANGED <<conf, env, logLevel, nChanges, op, req, correlationID,
                   resp, wire, nUUID>>
    /\ UNCHANGED sweeperVars

\* RoundTrip, the dump of the response and the status test.
RT_Response(c, dumpOK) ==
    /\ pc[c] = "response"
    /\ log' = IF conf.Debug
              THEN log \o Emit(c, logResponse(c, resp[c], correlationID[c], dumpOK))
              ELSE log
    /\ IF IsErrorStatus(resp[c].StatusCode)
       THEN /\ nMapped' = [nMapped EXCEPT ![c] = @ + 1]
            /\ body' = [body EXCEPT ![c] = "closed"]
            /\ Returned(c, [resp |-> NilResponse, err |-> mapResponseToError(resp[c])])
       ELSE /\ Returned(c, [resp |-> resp[c], err |-> NilErr])
            /\ UNCHANGED <<nMapped, body>>
    /\ UNCHANGED <<conf, env, logLevel, nChanges, op, req, correlationID,
                   resp, wire, nUUID>>
    /\ UNCHANGED sweeperVars

\* mapResponseBody with the close on the success path only: a decode error
\* returns with the body left open.
MapResponseBody_CloseOnSuccess(c, closeOK) ==
    /\ pc[c] = "decode"
    /\ LET decoded == rt[c].resp.Body.kind = "json"
       IN  /\ out' = [out EXCEPT ![c] =
                        [set |-> TRUE, ok |-> decoded,
                         err |-> IF decoded THEN NilErr ELSE Err("decode", 0, "")]]
           /\ body' = [body EXCEPT ![c] = IF decoded THEN "closed" ELSE @]
    /\ log' = IF closeOK THEN log
              ELSE log \o Emit(c, <<LogRecord("error", "failed to close response body",
                                              0, c, FALSE, NoHeader, <<>>, 0)>>)
    /\ pc' = [pc EXCEPT ![c] = "done"]
    /\ UNCHANGED <<conf, env, logLevel, nChanges, op, req, correlationID,
                   resp, rt, nMapped, wire, nUUID>>
    /\ UNCHANGED sweeperVars

\* mapResponseBody: decode the body, close it, log a failed close.
MapResponseBody(c, closeOK) ==
    /\ pc[c] = "decode"
    /\ LET decoded == rt[c].resp.Body.kind = "json"
       IN  out' = [out EXCEPT ![c] =
                     [set |-> TRUE, ok |-> decoded,
                      err |-> IF decoded THEN NilErr ELSE Err("decode", 0, "")]]
    /\ body' = [body EXCEPT ![c] = "closed"]
    /\ log' = IF closeOK THEN log
              ELSE log \o Emit(c, <<LogRecord("error", "failed to close response body",
                                              0, c, FALSE, NoHeader, <<>>, 0)>>)
    /\ pc' = [pc EXCEPT ![c] = "done"]
    /\ UNCHANGED <<conf, env, logLevel, nChanges, op, req, correlationID,
                   resp, rt, nMapped, wire, nUUID>>
    /\ UNCHANGED sweeperVars

\* ------------------------------------------- the caller changes the Config

SetAuthToken(v) ==
    /\ nChanges < MaxConfigChanges
    /\ v # conf.AuthToken
    /\ conf' = [conf EXCEPT !.AuthToken = v]
    /\ nChanges' = nChanges + 1
    /\ UNCHANGED <<env, logLevel, callVars, wire, log, nUUID>>
    /\ UNCHANGED sweeperVars

SetUserAgent(v) ==
    /\ nChanges < MaxConfigChanges
    /\ v # conf.UserAgent
    /\ conf' = [conf EXCEPT !.UserAgent = v]
    /\ nChanges' = nChanges + 1
    /\ UNCHANGED <<env, logLevel, callVars, wire, log, nUUID>>
    /\ UNCHANGED sweeperVars

SetDebug(v) ==
    /\ nChanges < MaxConfigChanges
    /\ v # conf.Debug
    /\ conf' = [conf EXCEPT !.Debug = v]
    /\ nChanges' = nChanges + 1
    /\ UNCHANGED <<env, logLevel, callVars, wire, log, nUUID>>
    /\ UNCHANGED sweeperVars

SetTransport(v) ==
    /\ nChanges < MaxConfigChanges
    /\ v # conf.Transport
    /\ conf' = [conf EXCEPT !.Transport = v]
    /\ nChanges' = nChanges + 1
    /\ UNCHANGED <<env, logLevel, callVars, wire, log, nUUID>>
    /\ UNCHANGED sweeperVars

Setenv(v) ==
    /\ nChanges < MaxConfigChanges
    /\ v # env
    /\ env' = v
    /\ nChanges' = nChanges + 1
    /\ UNCHANGED <<conf, logLevel, callVars, wire, log, nUUID>>
    /\ UNCHANGED sweeperVars

\* ------------------------------------------------------------ ErrorList

\* A string is a sequence of pieces: the literal parts of a format and the
\* rendered values.
Lit(text) == [piece |-> "literal", code |-> 0, text |-> text]

\* (*Error).Error: "[%d] %s" of the code and the text.
ErrorError(e) == [piece |-> "Error", code |-> e.ErrorCode, text |-> e.ErrorText]

\* ErrorList.Error: the return inside the loop ends it at the first element,
\* and what the builder holds is returned only for an empty list.
ErrorListError(l) ==
    IF l = <<>> THEN <<Lit("error:")>>
    ELSE <<Lit(" "), ErrorError(l[1]), Lit(" ;")>>

Contains(str, piece) == \E i \in DOMAIN str : str[i] = piece

\* ---------------------------------------------------------------- Sweeper

\* The names of the resources of the service; a name is a sequence of
\* characters, as is the prefix of CollectWithPrefix.
HasPrefix(str, prefix) ==
    /\ Len(prefix) <= Len(str)
    /\ SubSeq(str, 1, Len(prefix)) = prefix

testResourcePrefix == <<"t">>

\* What Employees().List and Departments().List may return.
EmployeeListings ==
    {<<>>,
     <<[ID |-> "e1", Name |-> <<"t", "1">>], [ID |-> "e2", Name |-> <<"x">>]>>,
     <<[ID |-> "e2", Name |-> <<"t", "2">>], [ID |-> "e1", Name |-> <<"t">>]>>}

DepartmentListings ==
    {<<>>, <<[ID |-> "d1", Name |-> <<"t", "d">>]>>}

\* The IDs of the resources of a listing whose name has the prefix, in order.
RECURSIVE IDsWithPrefix(_, _)
IDsWithPrefix(listing, prefix) ==
    IF listing = <<>> THEN <<>>
    ELSE (IF HasPrefix(Head(listing).Name, prefix) THEN <<Head(listing).ID>> ELSE <<>>)
         \o IDsWithPrefix(Tail(listing), prefix)

Slated(kind, ids) == {[kind |-> kind, id |-> ids[i]] : i \in DOMAIN ids}

\* The error of a failed deletion: the service's error for that resource.
DeleteError(id) == Err("Error", 404, id)

\* One deletion of Sweep, as attempted: again says whether a Sweep that has
\* returned attempted the ID already and nothing slated it since.
Attempt(kind, id, ok) ==
    [kind |-> kind, id |-> id, ok |-> ok,
     again |-> [kind |-> kind, id |-> id] \in swept]

\* A sweeper operation may start on goroutine p.
MayStart(p) == spc[p] = "idle" /\ nOps < MaxSweeperOps

\* AddEmployee: the append reads the slice ...
AddEmployee_Read(p, id) ==
    /\ MayStart(p)
    /\ Len(employeeIDs) < MaxSlated
    /\ nOps' = nOps + 1
    /\ g' = [g EXCEPT ![p] = [NoLocals EXCEPT !.id = id, !.snap = employeeIDs]]
    /\ spc' = [spc EXCEPT ![p] = "addEmployee"]
    /\ UNCHANGED <<employeeIDs, departmentIDs, mtx, sweepOut, added, swept>>
    /\ UNCHANGED clientVars

\* ... and writes the longer one back; neither under the mutex.
AddEmployee_Write(p) ==
    /\ spc[p] = "addEmployee"
    /\ employeeIDs' = Append(g[p].snap, g[p].id)
    /\ added' = added \cup {[kind |-> "employee", id |-> g[p].id]}
    /\ swept' = swept \ {[kind |-> "employee", id |-> g[p].id]}
    /\ g' = [g EXCEPT ![p] = NoLocals]
    /\ spc' = [spc EXCEPT ![p] = "idle"]
    /\ UNCHANGED <<departmentIDs, mtx, sweepOut, nOps>>
    /\ UNCHANGED clientVars

AddDepartment_Read(p, id) ==
    /\ MayStart(p)
    /\ Len(departmentIDs) < MaxSlated
    /\ nOps' = nOps + 1
    /\ g' = [g EXCEPT ![p] = [NoLocals EXCEPT !.id = id, !.snap = departmentIDs]]
    /\ spc' = [spc EXCEPT ![p] = "addDepartment"]
    /\ UNCHANGED <<employeeIDs, departmentIDs, mtx, sweepOut, added, swept>>
    /\ UNCHANGED clientVars

AddDepartment_Write(p) ==
    /\ spc[p] = "addDepartment"
    /\ departmentIDs' = Append(g[p].snap, g[p].id)
    /\ added' = added \cup {[kind |-> "department", id |-> g[p].id]}
    /\ swept' = swept \ {[kind |-> "department", id |-> g[p].id]}
    /\ g' = [g EXCEPT ![p] = NoLocals]
    /\ spc' = [spc EXCEPT ![p] = "idle"]
    /\ UNCHANGED <<employeeIDs, mtx, sweepOut, nOps>>
    /\ UNCHANGED clientVars

\* CollectWithPrefix: take the mutex.
Collect_Lock(p, prefix) ==
    /\ MayStart(p)
    /\ mtx = "free"
    /\ mtx' = p
    /\ nOps' = nOps + 1
    /\ g' = [g EXCEPT ![p] = [NoLocals EXCEPT !.prefix = prefix]]
    /\ spc' = [spc EXCEPT ![p] = "collectEmployees"]
    /\ UNCHANGED <<employeeIDs, departmentIDs, sweepOut, added, swept>>
    /\ UNCHANGED clientVars

\* CollectWithPrefix: list the employees and slate those with the prefix; a
\* failed listing ends the operation.
Collect_Employees(p, listing, ok) ==
    /\ spc[p] = "collectEmployees"
    /\ IF ~ok
       THEN /\ g' = [g EXCEPT ![p] = [NoLocals EXCEPT !.err = "list employees"]]
            /\ mtx' = "free"
            /\ spc' = [spc EXCEPT ![p] = "idle"]
            /\ UNCHANGED <<employeeIDs, swept>>
       ELSE LET ids == IDsWithPrefix(listing, g[p].prefix)
            IN  /\ Len(employeeIDs) + Len(ids) <= MaxSlated
                /\ employeeIDs' = employeeIDs \o ids
                /\ swept' = swept \ Slated("employee", ids)
                /\ spc' = [spc EXCEPT ![p] = "collectDepartments"]
                /\ UNCHANGED <<g, mtx>>
    /\ UNCHANGED <<departmentIDs, sweepOut, added, nOps>>
    /\ UNCHANGED clientVars

\* CollectWithPrefix: the same for the departments, and the return.
Collect_Departments(p, listing, ok) ==
    /\ spc[p] = "collectDepartments"
    /\ IF ~ok
       THEN /\ g' = [g EXCEPT ![p] = [NoLocals EXCEPT !.err = "list departments"]]
            /\ UNCHANGED <<departmentIDs, swept>>
       ELSE LET ids == IDsWithPrefix(listing, g[p].prefix)
            IN  /\ Len(departmentIDs) + Len(ids) <= MaxSlated
                /\ departmentIDs' = departmentIDs \o ids
                /\ swept' = swept \ Slated("department", ids)
                /\ g' = [g EXCEPT ![p] = NoLocals]
    /\ mtx' = "free"
    /\ spc' = [spc EXCEPT ![p] = "idle"]
    /\ UNCHANGED <<employeeIDs, sweepOut, added, nOps>>
    /\ UNCHANGED clientVars

\* Sweep: take the mutex and range over employeeIDs (the range reads the
\* slice once, when the loop starts).
Sweep_Lock(p) ==
    /\ MayStart(p)
    /\ mtx = "free"
    /\ mtx' = p
    /\ nOps' = nOps + 1
    /\ g' = [g EXCEPT ![p] = [NoLocals EXCEPT !.employeeIDs = employeeIDs, !.i = 1]]
    /\ spc' = [spc EXCEPT ![p] = "deleteEmployees"]
    /\ UNCHANGED <<employeeIDs, departmentIDs, sweepOut, added, swept>>
    /\ UNCHANGED clientVars

\* Sweep with a loop that a failed deletion ends.
Sweep_DeleteEmployee_StopOnError(p, ok) ==
    /\ spc[p] = "deleteEmployees"
    /\ g[p].i <= Len(g[p].employeeIDs)
    /\ LET id == g[p].employeeIDs[g[p].i]
       IN  g' = [g EXCEPT ![p].tried = Append(@, Attempt("employee", id, ok)),
                          ![p].errList = IF ok THEN @ ELSE Append(@, DeleteError(id)),
                          ![p].i = IF ok THEN @ + 1 ELSE Len(g[p].employeeIDs) + 1]
    /\ UNCHANGED <<employeeIDs, departmentIDs, mtx, spc, sweepOut, added, swept, nOps>>
    /\ UNCHANGED clientVars

\* Sweep: one turn of the loop over the employees; the deletion succeeds or
\* fails, and a failure is appended to errList.
Sweep_DeleteEmployee(p, ok) ==
    /\ spc[p] = "deleteEmployees"
    /\ g[p].i <= Len(g[p].employeeIDs)
    /\ LET id == g[p].employeeIDs[g[p].i]
       IN  g' = [g EXCEPT ![p].tried = Append(@, Attempt("employee", id, ok)),
                          ![p].errList = IF ok THEN @ ELSE Append(@, DeleteError(id)),
                          ![p].i = @ + 1]
    /\ UNCHANGED <<employeeIDs, departmentIDs, mtx, spc, sweepOut, added, swept, nOps>>
    /\ UNCHANGED clientVars

\* Sweep: the loop over the employees is over, range over departmentIDs.
Sweep_RangeDepartments(p) ==
    /\ spc[p] = "deleteEmployees"
    /\ g[p].i > Len(g[p].employeeIDs)
    /\ g' = [g EXCEPT ![p].departmentIDs = departmentIDs, ![p].i = 1]
    /\ spc' = [spc EXCEPT ![p] = "deleteDepartments"]
    /\ UNCHANGED <<employeeIDs, departmentIDs, mtx, sweepOut, added, swept, nOps>>
    /\ UNCHANGED clientVars

\* Sweep: one turn of the loop over the departments.
Sweep_DeleteDepartment(p, ok) ==
    /\ spc[p] = "deleteDepartments"
    /\ g[p].i <= Len(g[p].departmentIDs)
    /\ LET id == g[p].departmentIDs[g[p].i]
       IN  g' = [g EXCEPT ![p].tried = Append(@, Attempt("department", id, ok)),
                          ![p].errList = IF ok THEN @ ELSE Append(@, DeleteError(id)),
                          ![p].i = @ + 1]
    /\ UNCHANGED <<employeeIDs, departmentIDs, mtx, spc, sweepOut, added, swept, nOps>>
    /\ UNCHANGED clientVars

\* Sweep: nil for an empty errList and errList otherwise; the mutex is
\* released.  The caller renders a non-nil error into its failure message.
Sweep_Return(p) ==
    /\ spc[p] = "deleteDepartments"
    /\ g[p].i > Len(g[p].departmentIDs)
    /\ sweepOut' = [set |-> TRUE,
                    nil |-> Len(g[p].errList) = 0,
                    errList |-> g[p].errList,
                    text |-> IF Len(g[p].errList) = 0 THEN <<>>
                             ELSE ErrorListError(g[p].errList),
                    employeeIDs |-> g[p].employeeIDs,
                    departmentIDs |-> g[p].departmentIDs,
                    tried |-> g[p].tried]
    /\ swept' = swept \cup {[kind |-> g[p].tried[i].kind, id |-> g[p].tried[i].id] :
                               i \in DOMAIN g[p].tried}
    /\ mtx' = "free"
    /\ g' = [g EXCEPT ![p] = NoLocals]
    /\ spc' = [spc EXCEPT ![p] = "idle"]
    /\ UNCHANGED <<employeeIDs, departmentIDs, added, nOps>>
    /\ UNCHANGED clientVars

\* ---------------------------------------------------------- specifications

\* The steps of call c: the API methods it may run are ops, the Accept
\* headers of a caller's own request accepts, the wrapped transport's
\* answers answers, and oks says whether encoding, dumping and closing may
\* fail (FALSE in oks) or not.
CallStep(c, ops, accepts, answers, oks) ==
    \/ \E o \in ops, ok \in oks : HttpDo(c, o, ok)
    \/ \E a \in accepts : DirectRoundTrip(c, a)
    \/ RT_CheckToken(c)
    \/ RT_Headers(c)
    \/ \E dumpOK \in oks : RT_LogRequest(c, dumpOK)
    \/ RT_SetBasicAuth(c)
    \/ \E a \in answers \cup {NilResponse} : RT_Delegate(c, a)
    \/ \E dumpOK \in oks : RT_Response(c, dumpOK)
    \/ \E closeOK \in oks : MapResponseBody(c, closeOK)

ConfigChange ==
    \/ \E v \in AuthTokens : SetAuthToken(v)
    \/ \E v \in UserAgents : SetUserAgent(v)
    \/ \E v \in BOOLEAN : SetDebug(v)
    \/ \E v \in Transports : SetTransport(v)
    \/ \E v \in EnvTokens : Setenv(v)

\* Concurrent calls on one client, the caller changing the Config meanwhile.
Next ==
    \/ \E c \in Calls : CallStep(c, {"Create"}, {"text/html"}, StubResponses, {TRUE})
    \/ ConfigChange

Spec == Init /\ [][Next]_vars

\* One call, with every request, every answer and every failure, on every
\* configuration.
NextOne == CallStep("c1", Ops \ {"Direct"}, CallerAccepts, AllResponses, BOOLEAN)

SpecOne == Init /\ [][NextOne]_vars

\* The steps of goroutine p on the sweeper.
SweeperStep(p) ==
    \/ \E id \in EmployeeIDs : AddEmployee_Read(p, id)
    \/ AddEmployee_Write(p)
    \/ \E id \in DepartmentIDs : AddDepartment_Read(p, id)
    \/ AddDepartment_Write(p)
    \/ Collect_Lock(p, testResourcePrefix)
    \/ \E l \in EmployeeListings, ok \in BOOLEAN : Collect_Employees(p, l, ok)
    \/ \E l \in DepartmentListings, ok \in BOOLEAN : Collect_Departments(p, l, ok)
    \/ Sweep_Lock(p)
    \/ \E ok \in BOOLEAN : Sweep_DeleteEmployee(p, ok)
    \/ Sweep_RangeDepartments(p)
    \/ \E ok \in BOOLEAN : Sweep_DeleteDepartment(p, ok)
    \/ Sweep_Return(p)

\* The sweeper of an integration test: its client is the test's client, with
\* the test's transport installed and the token taken from the environment.
InitSweeper ==
    /\ Init
    /\ conf = [AuthToken |-> "", UserAgent |-> "", Debug |-> FALSE,
               Transport |-> "testTransport"]
    /\ env = "envtok"

NextSweeper == \E p \in Procs : SweeperStep(p)

\* Goroutines that call the operations of one sweeper.
SpecSweeper == InitSweeper /\ [][NextSweeper]_vars

\* ------------------------------------------------------------------ claims

Started(c) == pc[c] # "idle"

\* The wrapped transport has answered call c with a response.
Answered(c) == ~resp[c].nil

\* The mapper has run on the response of call c.
Mapped(c) == Answered(c) /\ nMapped[c] > 0

\* C1: a RoundTrip that starts while the explicit token and the environment
\* token are both empty returns the missing-token error and a nil response,
\* and the wrapped transport has not been invoked for its request.
C1_MissingTokenNoNetwork ==
    [][\A c \in Calls :
         (pc[c] = "check" /\ pc'[c] # "check" /\ conf.AuthToken = "" /\ env = "")
            => /\ rt'[c] = [resp |-> NilResponse, err |-> ErrMissingToken]
               /\ pc'[c] = "done"
               /\ wire' = wire
               /\ \A i \in DOMAIN wire' : wire'[i].call # c]_vars

\* C1, witness: a call has returned the missing-token error on a client whose
\* explicit token and environment token were empty all along.
C1_Witness ==
    \E c \in Calls :
        /\ pc[c] = "done"
        /\ conf.AuthToken = "" /\ env = "" /\ nChanges = 0
        /\ rt[c].err = ErrMissingToken

\* C2: a response with a status in [200,299] is returned as it is with a nil
\* error, the mapper not invoked, and the dispatcher goes on to decode it; a
\* response with another status is replaced by a nil response and the
\* mapper's service error.
C2_StatusSplit ==
    \A c \in Calls :
        (Answered(c) /\ pc[c] \in {"decode", "done"}) =>
            IF resp[c].StatusCode >= 200 /\ resp[c].StatusCode <= 299
            THEN /\ nMapped[c] = 0
                 /\ rt[c] = [resp |-> resp[c], err |-> NilErr]
                 /\ op[c] # "Direct" =>
                        \/ pc[c] = "decode"
                        \/ out[c].set /\ out[c].err.type \in {"nil", "decode"}
            ELSE /\ nMapped[c] = 1
                 /\ rt[c].resp = NilResponse
                 /\ rt[c].err.type = "Error"
                 /\ op[c] # "Direct" => out[c] = [set |-> TRUE, ok |-> FALSE, err |-> rt[c].err]

\* C2, witness: a dispatched call got a response with status 299 and decoded
\* its body.
C2_Witness ==
    \E c \in Calls :
        /\ pc[c] = "done" /\ Answered(c)
        /\ resp[c].StatusCode = 299
        /\ out[c].ok

\* What the claims expect of the mapped error, from the body as sent.
SentCode(b) == IF b.kind = "json" /\ b.codeTyped THEN b.code ELSE 0

SentText(b) == IF b.kind = "json" /\ b.textTyped THEN b.text ELSE ""

ExpectedCode(r) == IF SentCode(r.Body) # 0 THEN SentCode(r.Body) ELSE r.StatusCode

ExpectedText(r) ==
    IF SentText(r.Body) # "" THEN SentText(r.Body) ELSE StatusText(ExpectedCode(r))

C4_Original ==
    \A c \in Calls :
        (Mapped(c) /\ WellFormedEnvelope(resp[c].Body)) =>
            /\ rt[c].err.ErrorCode = resp[c].Body.code
            /\ rt[c].err.ErrorText = resp[c].Body.text

\* C4, amended: the mapped error has the envelope's code when that is not 0
\* and the envelope's text when that is not ""; for a code of 0 it has the
\* HTTP status, for a text of "" the reason phrase of its code.
C4_EnvelopeFields ==
    \A c \in Calls :
        (Mapped(c) /\ WellFormedEnvelope(resp[c].Body)) =>
            /\ resp[c].Body.code # 0 => rt[c].err.ErrorCode = resp[c].Body.code
            /\ resp[c].Body.text # "" => rt[c].err.ErrorText = resp[c].Body.text
            /\ resp[c].Body.code = 0 => rt[c].err.ErrorCode = resp[c].StatusCode
            /\ resp[c].Body.text = "" =>
                   rt[c].err.ErrorText = StatusText(rt[c].err.ErrorCode)

\* C4, witness: a 500 with the envelope (42, "boom") was mapped to [42] boom.
C4_Witness ==
    \E c \in Calls :
        /\ Mapped(c) /\ pc[c] = "done"
        /\ resp[c] = Response(500, Envelope(42, "boom"))
        /\ rt[c].err = Err("Error", 42, "boom")

\* The dispatcher has built the request of call c.
Built(c) == Started(c) /\ op[c] # "Direct" /\ out[c].err.type # "build"

\* C5, as claimed: the request the dispatcher built has the form content
\* type for a form body, the JSON content type for another body, and neither
\* a Content-Type header nor a payload when there is no body.
C5_ContentType ==
    \A c \in Calls :
        Built(c) =>
            CASE BodyOf(op[c]) = "form" ->
                    req[c].header["Content-Type"] = <<"application/x-www-form-urlencoded">>
              [] BodyOf(op[c]) = "json" ->
                    req[c].header["Content-Type"] = <<"application/json">>
              [] OTHER ->
                    /\ ~HeaderHas(req[c].header, "Content-Type")
                    /\ req[c].payload = "nil"

ResolvedUserAgent(c) == IF c.UserAgent # "" THEN c.UserAgent ELSE defaultUserAgent

\* C7, as claimed: the User-Agent RoundTrip puts on a request is the explicit
\* user agent when that is non-empty and the default otherwise, whatever the
\* token is.
C7_UserAgent ==
    \A c \in Calls :
        HeaderHas(req[c].header, "User-Agent") =>
            HeaderGet(req[c].header, "User-Agent") = ResolvedUserAgent(conf)

\* C8, as claimed: a request that reaches the wrapped transport has the
\* resolver's user agent as its User-Agent, application/json as its Accept,
\* whatever the caller had set, and the resolved token with an empty password
\* as its Basic credentials.
C8_WireHeaders ==
    \A i \in DOMAIN wire :
        /\ wire[i].header["User-Agent"] = <<GetUserAgent(conf)>>
        /\ wire[i].header["Accept"] = <<"application/json">>
        /\ wire[i].auth = <<[username |-> GetAuthToken(conf, env), password |-> ""]>>

\* C9, as claimed: the request dumped to the log has the headers and the
\* credentials the wrapped transport then receives.
C9_DumpIsWire ==
    \A i \in DOMAIN log, j \in DOMAIN wire :
        (log[i].msg = "outbound request" /\ log[i].dumped
         /\ wire[j].call = log[i].call) =>
            /\ log[i].header = wire[j].header
            /\ log[i].auth = wire[j].auth

IsDump(r) == r.msg \in {"outbound request", "received response"}

\* C10, as claimed: the "outbound request" and the "received response"
\* records of a cycle carry the cycle's correlation identifier, and the
\* records of no other cycle carry it.
C10_CorrelatedDumps ==
    \A i \in DOMAIN log :
        IsDump(log[i]) =>
            /\ log[i].correlationID # 0
            /\ log[i].correlationID = correlationID[log[i].call]
            /\ \A j \in DOMAIN log :
                 IsDump(log[j]) =>
                    (log[j].correlationID = log[i].correlationID
                        <=> log[j].call = log[i].call)

\* The record mapResponseBody logs when closing the body fails.
IsCloseFailure(r, c) ==
    r.call = c /\ r.level = "error" /\ r.msg = "failed to close response body"

\* What the dispatcher returns for the answer call c got, whatever the close
\* of the body did.
OutOfAnswer(c) ==
    IF IsErrorStatus(resp[c].StatusCode)
    THEN [set |-> TRUE, ok |-> FALSE, err |-> mapResponseToError(resp[c])]
    ELSE IF resp[c].Body.kind = "json"
         THEN [set |-> TRUE, ok |-> TRUE, err |-> NilErr]
         ELSE [set |-> TRUE, ok |-> FALSE, err |-> Err("decode", 0, "")]

\* C11: when a dispatched call has returned, the body of the response the
\* wrapped transport gave it is closed, after a successful decode, a decode
\* error and a mapped service error alike; and what the call returns is the
\* outcome of its answer alone, also when the close failed (which leaves
\* nothing but a log record).
C11_BodyClosed ==
    \A c \in Calls :
        (pc[c] = "done" /\ op[c] # "Direct" /\ Answered(c)) =>
            /\ body[c] = "closed"
            /\ out[c] = OutOfAnswer(c)

\* C11, witness: a dispatched call has returned a decode error with its body
\* closed, the close having failed and been logged.
C11_Witness ==
    \E c \in Calls :
        /\ pc[c] = "done" /\ op[c] # "Direct" /\ Answered(c)
        /\ out[c].err.type = "decode"
        /\ body[c] = "closed"
        /\ \E i \in DOMAIN log : IsCloseFailure(log[i], c)

\* The invocations of the wrapped transport by call c.
Invocations(c) == {i \in DOMAIN wire : wire[i].call = c}

\* The RoundTrip of call c has returned because the wrapped transport failed.
Failed(c) ==
    pc[c] = "done" /\ Invocations(c) # {} /\ ~Answered(c)

\* C15: one RoundTrip invokes the wrapped transport at most once; when the
\* wrapped transport fails, RoundTrip returns a nil response and the error
\* that wraps the transport's error, the response was not dumped to the log
\* and the mapper was not invoked.
C15_TransportFailure ==
    \A c \in Calls :
        /\ Cardinality(Invocations(c)) <= 1
        /\ Failed(c) =>
              /\ rt[c] = [resp |-> NilResponse, err |-> ErrRequestFailed]
              /\ nMapped[c] = 0
              /\ \A i \in DOMAIN log :
                    log[i].call = c =>
                        log[i].msg \notin {"received response", "failed to dump response"}

\* C15, witness: with Debug on and the request dumped to the log, the
\* wrapped transport was invoked and failed, and the call has returned.
C15_Witness ==
    \E c \in Calls :
        /\ Failed(c)
        /\ conf.Debug /\ logLevel = "debug"
        /\ \E i \in DOMAIN log : log[i].call = c /\ log[i].msg = "outbound request"
        /\ out[c] = [set |-> TRUE, ok |-> FALSE, err |-> ErrRequestFailed]

\* The RoundTrip of call c has returned.
RoundTripReturned(c) == pc[c] \in {"decode", "done"} /\ req[c] # NoRequest

\* What RoundTrip returns for the resolved token and the wrapped transport's
\* behaviour towards call c.
RoundTripOutcome(c) ==
    IF Invocations(c) = {} THEN [resp |-> NilResponse, err |-> ErrMissingToken]
    ELSE IF ~Answered(c) THEN [resp |-> NilResponse, err |-> ErrRequestFailed]
    ELSE IF IsErrorStatus(resp[c].StatusCode)
         THEN [resp |-> NilResponse, err |-> mapResponseToError(resp[c])]
         ELSE [resp |-> resp[c], err |-> NilErr]

DumpMessages ==
    {"outbound request", "received response",
     "failed to dump request", "failed to dump response"}

C13_ConfigByReference ==
    [][\A c \in Calls :
         (pc[c] = "delegate" /\ pc'[c] # "delegate") =>
            /\ Len(wire') = Len(wire) + 1
            /\ wire'[Len(wire')].call = c
            /\ wire'[Len(wire')].transport =
                  (IF conf.Transport = "nil" THEN "http.DefaultTransport"
                   ELSE conf.Transport)]_vars

\* C13, witness: a request went to the default transport, then the caller
\* installed Config.Transport, and the next request went to that transport.
C13_Witness ==
    /\ nChanges = 1 /\ conf.Transport = "testTransport"
    /\ Len(wire) = 2
    /\ wire[1].transport = "http.DefaultTransport"
    /\ wire[2].transport = "testTransport"
    /\ wire[1].call # wire[2].call

\* What the dispatcher returns to the caller of call c, executed alone
\* against the behaviour the wrapped transport showed it.
OutcomeAlone(c) ==
    IF RoundTripOutcome(c).err # NilErr
    THEN [set |-> TRUE, ok |-> FALSE, err |-> RoundTripOutcome(c).err]
    ELSE OutOfAnswer(c)

\* C14: with the configuration left as it was, a call that shares the client
\* with another returns what it returns when executed alone against the same
\* behaviour of the wrapped transport, however the steps of the two calls
\* interleave.
C14_CallsIndependent ==
    \A c \in Calls :
        (nChanges = 0 /\ RoundTripReturned(c)) =>
            /\ (Invocations(c) = {}) = (GetAuthToken(conf, env) = "")
            /\ rt[c] = RoundTripOutcome(c)
            /\ (pc[c] = "done" /\ op[c] # "Direct") => out[c] = OutcomeAlone(c)

\* C14, witness: two calls overlapped (the first to take its correlation ID
\* was the second to reach the wrapped transport), got different answers and
\* returned, one its result and the other its service error.
C14_Witness ==
    /\ nChanges = 0
    /\ \A c \in Calls : pc[c] = "done" /\ op[c] # "Direct"
    /\ correlationID["c1"] = 1 /\ Len(wire) = 2 /\ wire[1].call = "c2"
    /\ out["c1"].ok
    /\ out["c2"].err.type = "Error"

\* C19: every request that reaches a wrapped transport carries Basic
\* credentials with a non-empty username, also when the token of the
\* Config or of the environment is changed while the RoundTrip is under way.
C19_NonEmptyUsername ==
    \A i \in DOMAIN wire :
        /\ wire[i].auth # <<>>
        /\ wire[i].auth[1].username # ""

\* C12: a Sweep without a failed deletion returns nil and not an empty
\* aggregate, and the aggregate a Sweep returns renders as a string that
\* contains the rendered message of every one of its elements.
C12_AggregateRendering ==
    sweepOut.set =>
        /\ sweepOut.nil = (sweepOut.errList = <<>>)
        /\ ~sweepOut.nil =>
              \A i \in DOMAIN sweepOut.errList :
                  Contains(sweepOut.text, ErrorError(sweepOut.errList[i]))

\* The deletions of a list of IDs, as IDs of their kind.
RECURSIVE Deletions(_, _)
Deletions(kind, ids) ==
    IF ids = <<>> THEN <<>>
    ELSE <<[kind |-> kind, id |-> Head(ids)]>> \o Deletions(kind, Tail(ids))

\* What was attempted, without the outcomes.
RECURSIVE Attempted(_)
Attempted(tried) ==
    IF tried = <<>> THEN <<>>
    ELSE <<[kind |-> Head(tried).kind, id |-> Head(tried).id]>> \o Attempted(Tail(tried))

\* The errors of the attempts that failed, in the order of the attempts.
RECURSIVE FailedErrors(_)
FailedErrors(tried) ==
    IF tried = <<>> THEN <<>>
    ELSE (IF Head(tried).ok THEN <<>> ELSE <<DeleteError(Head(tried).id)>>)
         \o FailedErrors(Tail(tried))

\* C17: a Sweep that has returned has attempted the deletion of every
\* employee ID it found slated and then of every department ID it found
\* slated, in list order, whatever failed on the way; its aggregate holds
\* the errors of the failed deletions and no others, in the order of the
\* attempts; and it returned nil exactly when no deletion failed.
C17_SweepAll ==
    sweepOut.set =>
        /\ Attempted(sweepOut.tried) =
              Deletions("employee", sweepOut.employeeIDs)
                  \o Deletions("department", sweepOut.departmentIDs)
        /\ sweepOut.errList = FailedErrors(sweepOut.tried)
        /\ sweepOut.nil = (\A i \in DOMAIN sweepOut.tried : sweepOut.tried[i].ok)

\* C17, witness: a Sweep over two employees and a department went on after
\* the first deletion failed, to a success and to a second failure, and
\* returned the two errors in that order.
C17_Witness ==
    /\ sweepOut.set
    /\ Len(sweepOut.tried) = 3
    /\ ~sweepOut.tried[1].ok /\ sweepOut.tried[2].ok /\ ~sweepOut.tried[3].ok
    /\ sweepOut.tried[3].kind = "department"
    /\ sweepOut.errList =
          <<DeleteError(sweepOut.tried[1].id), DeleteError(sweepOut.tried[3].id)>>

\* Goroutine p is at the ID lists: it holds the mutex, or it is inside an
\* Add, between the read and the write of the append.
AtLists(p) == mtx = p \/ spc[p] \in {"addEmployee", "addDepartment"}

\* C18: no two goroutines are at the ID lists at the same time, and the ID
\* of every Add call that has returned is in its list.
C18_MutexProtectsLists ==
    /\ Cardinality({p \in Procs : AtLists(p)}) <= 1
    /\ \A a \in added :
          \E i \in DOMAIN (IF a.kind = "employee" THEN employeeIDs ELSE departmentIDs) :
              (IF a.kind = "employee" THEN employeeIDs ELSE departmentIDs)[i] = a.id

\* C20: no Sweep attempts the deletion of an ID that a Sweep before it has
\* attempted already, unless the ID was slated again in between.
C20_AttemptedOnce ==
    /\ \A p \in Procs : \A i \in DOMAIN g[p].tried : ~g[p].tried[i].again
    /\ \A i \in DOMAIN sweepOut.tried : ~sweepOut.tried[i].again

====
